---- MODULE Spec2Model ----
(***************************************************************************)
(* The VIRT name registry (Registrar Service over the Site collection) and  *)
(* the browser's main process (navigation gate, virt:// protocol handler).  *)
(* Strings are TLA+ strings, read character by character with SubSeq.      *)
(* An optional JSON field is <<>> when undefined and <<s>> when present.   *)
(* A request handler is split at its awaits that touch the collection, so  *)
(* that two requests in flight interleave the way the event loop allows.   *)
(***************************************************************************)
EXTENDS Integers, Sequences, FiniteSets, TLC

\* ------------------------------------------------------------------ bounds
\* requests accepted in one behaviour
MaxRequests == 3
\* last value of the wall clock
MaxClock == 1
\* pieces that make up the path of a generated target
MaxPieces == 4
\* documents of an indexed collection
MaxDocs == 26
\* readings of the clock after the first, where lookups overlap
MaxReadings == 2

\* ------------------------------------------------------- program constants
DomainMinLen == 3
DomainMaxLen == 63
TitleMaxLen == 100
DescriptionMaxLen == 500
SearchLimit == 20

\* --------------------------------------------------------- string helpers
\* s.charAt(i - 1): the empty string outside the string
Char(s, i) == IF i \in 1..Len(s) THEN SubSeq(s, i, i) ELSE ""

StartsWith(s, p) == Len(s) >= Len(p) /\ SubSeq(s, 1, Len(p)) = p

EndsWith(s, p) == Len(s) >= Len(p) /\ SubSeq(s, Len(s) - Len(p) + 1, Len(s)) = p

\* String.prototype.indexOf, 1-based; 0 when p does not occur in s
RECURSIVE IndexFrom(_, _, _)
IndexFrom(s, p, i) ==
    IF i + Len(p) - 1 > Len(s) THEN 0
    ELSE IF SubSeq(s, i, i + Len(p) - 1) = p THEN i
    ELSE IndexFrom(s, p, i + 1)

IndexOf(s, p) == IndexFrom(s, p, 1)

\* String.prototype.replace(p, r) with a string pattern: the first occurrence only
ReplaceFirst(s, p, r) ==
    LET i == IndexOf(s, p)
    IN  IF i = 0 THEN s
        ELSE SubSeq(s, 1, i - 1) \o r \o SubSeq(s, i + Len(p), Len(s))

\* String.prototype.replace(/\/$/, '')
StripTrailingSlash(s) == IF EndsWith(s, "/") THEN SubSeq(s, 1, Len(s) - 1) ELSE s

Upper == <<"A", "B", "C", "D", "E", "F", "G", "H", "I", "J", "K", "L", "M",
           "N", "O", "P", "Q", "R", "S", "T", "U", "V", "W", "X", "Y", "Z">>
Lower == <<"a", "b", "c", "d", "e", "f", "g", "h", "i", "j", "k", "l", "m",
           "n", "o", "p", "q", "r", "s", "t", "u", "v", "w", "x", "y", "z">>

LowerChar(c) ==
    IF \E k \in 1..26 : Upper[k] = c
    THEN Lower[CHOOSE k \in 1..26 : Upper[k] = c]
    ELSE c

\* the schema's lowercase: true setter (String.prototype.toLowerCase)
RECURSIVE ToLowerCase(_)
ToLowerCase(s) ==
    IF Len(s) = 0 THEN s
    ELSE LowerChar(Char(s, 1)) \o ToLowerCase(SubSeq(s, 2, Len(s)))

Digits == {"0", "1", "2", "3", "4", "5", "6", "7", "8", "9"}

\* length of the run of \d at position i
RECURSIVE DigitRun(_, _)
DigitRun(s, i) ==
    IF i <= Len(s) /\ Char(s, i) \in Digits THEN 1 + DigitRun(s, i + 1) ELSE 0

\* (\d{1,3}\.){k} read at position i: the position after it, 0 when it does not match
RECURSIVE DottedGroups(_, _, _)
DottedGroups(s, i, k) ==
    IF k = 0 THEN i
    ELSE LET n == DigitRun(s, i)
         IN  IF n \in 1..3 /\ Char(s, i + n) = "."
             THEN DottedGroups(s, i + n + 1, k - 1)
             ELSE 0

\* /^(\d{1,3}\.){3}\d{1,3}(:\d{1,5})?$/
IsIpWithPort(v) ==
    LET i == DottedGroups(v, 1, 3)
        n == DigitRun(v, i)
        j == i + n
        m == DigitRun(v, j + 1)
    IN  /\ i # 0
        /\ n \in 1..3
        /\ \/ j = Len(v) + 1
           \/ /\ Char(v, j) = ":"
              /\ m \in 1..5
              /\ j + m = Len(v)

LineTerminators == {"\n", "\r"}

\* /^https:\/\/.+/
IsHttpsUrl(v) ==
    /\ StartsWith(v, "https://")
    /\ Len(v) > 8
    /\ Char(v, 9) \notin LineTerminators

\* a validator that takes http for https
TargetValidator_AnyHttp(v) == IsHttpsUrl(v) \/ IsIpWithPort(v) \/ StartsWith(v, "http://")

\* siteSchema.target.validate.validator
TargetValidator(v) == IsHttpsUrl(v) \/ IsIpWithPort(v)

\* a tld list that lets one more value through
ValidTlds_WithCom == {"vc", "vmc", "at", "lit", "com"}

\* ['vc', 'vmc', 'at', 'lit']
ValidTlds == {"vc", "vmc", "at", "lit"}

\* a rewrite that appends no slash
RawBase_NoSlash(target) ==
    IF StartsWith(target, "https://github.com/")
    THEN StripTrailingSlash(
             ReplaceFirst(ReplaceFirst(target, "github.com", "raw.githubusercontent.com"),
                          "/blob/", "/"))
    ELSE target

\* a rewrite that fires wherever the host name occurs
RawBase_AnyGithub(target) ==
    IF IndexOf(target, "github.com") # 0
    THEN StripTrailingSlash(
             ReplaceFirst(ReplaceFirst(target, "github.com", "raw.githubusercontent.com"),
                          "/blob/", "/")) \o "/"
    ELSE target

\* the lookup handler's rawBase
RawBase(target) ==
    IF StartsWith(target, "https://github.com/")
    THEN StripTrailingSlash(
             ReplaceFirst(ReplaceFirst(target, "github.com", "raw.githubusercontent.com"),
                          "/blob/", "/")) \o "/"
    ELSE target

\* ----------------------------------------------------------------- secrets
HexDigits == <<"1", "2", "3", "4", "5", "6", "7", "8", "9", "a", "b", "c", "d", "e", "f">>

\* `v12-${crypto.randomBytes(8).toString('hex')}`: the n-th value the generator gives.
\* The generator is taken to be collision free, so its values are told apart by n.
SecretKeyOf(n) == "v12-" \o "000000000000000" \o HexDigits[n]

SecretPool == {SecretKeyOf(n) : n \in 1..MaxRequests}

\* the salts bcrypt draws; no handler reads the salt, so one value stands for all
Salts == {"s1"}

RECURSIVE Reverse(_)
Reverse(s) == IF Len(s) = 0 THEN s ELSE Reverse(SubSeq(s, 2, Len(s))) \o Char(s, 1)

\* bcrypt.hash(data, 10): version, cost, salt, digest
BcryptHash(data, salt) == "$2b$10$" \o salt \o Reverse(data)

\* a comparison that looks at the hash's version and cost alone
BcryptCompare_Lax(data, hash) == StartsWith(hash, "$2b$10$")

\* bcrypt.compare(data, hash): hash data again under the salt kept in the hash
BcryptCompare(data, hash) == hash = BcryptHash(data, SubSeq(hash, 8, 9))

\* ------------------------------------------------------------------- state
VARIABLES
    store,      \* the Site collection: a set of documents
    req,        \* per connection: the handler in flight and where it awaits
    last,       \* the response sent by the step just taken, NoResponse if none
    now,        \* Date.now()
    started,    \* requests accepted so far
    nextId,     \* the next ObjectId
    issued,     \* secret keys generated so far
    shown,      \* per secret key: the number of responses that carried it
    keyOf,      \* per _id ever stored: the secret key its registration returned
    bodyOf,     \* per _id ever stored: the body of the register that created it
    io,         \* the operations on the collection issued by the step just taken
    db,         \* the mongoose connection: "connecting", "connected" or "failed"
    listening,  \* app.listen has been called
    current,    \* per web contents: the URL of its last navigation
    ipc,        \* what the last 'v12:navigate' call returned to its caller
    files,      \* the files that exist under src/assets
    virt,       \* the virt:// protocol handler in flight and where it awaits
    net,        \* the requests the protocol handler in flight has issued
    result,     \* how the protocol handler's promise settled
    bookmarks,  \* bookmarks.json under userData: absent, or the bookmark bar it holds
    answer,     \* what the last bookmark call returned to its caller
    arg,        \* the argument given to a function applied on its own
    out         \* the results of applying it: once, and once more to the result

vars == <<store, req, last, now, started, nextId, issued, shown, keyOf, bodyOf, io,
          db, listening, current, ipc, files, virt, net, result, bookmarks, answer,
          arg, out>>

\* the Registrar Service's requests and collection
registry == <<store, req, last, now, started, nextId, issued, shown, keyOf, bodyOf, io>>

\* the Registrar Service's start-up
server == <<db, listening>>

\* the browser's main process
browser == <<current, ipc, files, virt, net, result, bookmarks, answer>>

\* the bookmark store of the main process
shelf == <<bookmarks, answer>>

\* the variables that no registry handler touches
others == <<arg, out, server, browser>>

\* connections that can have a handler in flight at once
Slots == {1, 2}

Absent == <<>>
Some(v) == <<v>>

NoDoc == [id |-> 0]
NoResponse == [status |-> 0]
Idle == [pc |-> "idle"]
NoResult == [kind |-> "none"]
NoFile == [exists |-> FALSE]

\* the web contents: the main window's, and a <webview> guest's
Contents == {"main", "webview"}

\* mainWindow.loadFile('src/renderer/index.html')
StartPage == "file://src/renderer/index.html"

\* the files bundled under src/assets
Bundled == {"registration.html", "search.html", "sales.html", "favicon.ico"}

\* ------------------------------------------------------------------ inputs
RECURSIVE Repeat(_, _)
Repeat(c, n) == IF n = 0 THEN "" ELSE c \o Repeat(c, n - 1)

\* a domain one character longer than the schema allows
LongDomain == Repeat("a", DomainMaxLen + 1)

NoMeta == [title |-> Absent, description |-> Absent]
Meta(t, d) == [title |-> Some(t), description |-> Some(d)]

RegisterBody(d, t, g, m) ==
    [domain |-> d, tld |-> t, target |-> g, title |-> m.title, description |-> m.description]

\* well-formed register bodies, and one body for each way of being ill-formed
RegisterBodies ==
    {RegisterBody("abc", t, "https://a.io", NoMeta) : t \in {"vc", "at"}}
        \cup {RegisterBody("xyz", "vc", "https://a.io", NoMeta),
              RegisterBody("Abc", "vc", "https://github.com/u/r/", Meta("T", "D")),
              RegisterBody("", "vc", "https://a.io", NoMeta),
              RegisterBody("abc", "", "https://a.io", NoMeta),
              RegisterBody("abc", "vc", "", NoMeta),
              RegisterBody("abc", "com", "https://a.io", NoMeta),
              RegisterBody("ab", "vc", "https://a.io", NoMeta),
              RegisterBody(LongDomain, "vc", "https://a.io", NoMeta),
              RegisterBody("abc", "vc", "http://a.io", NoMeta)}

\* the keys that callers present: the first two the generator gives
KeyInputs == {SecretKeyOf(1), SecretKeyOf(2)}

UpdateBody(d, t, k, g, m) ==
    [domain |-> d, tld |-> t, secretKey |-> k, target |-> g,
     title |-> m.title, description |-> m.description]

UpdateBodies ==
    {UpdateBody("abc", "vc", SecretKeyOf(1), g, NoMeta) : g \in {"", "https://b.io"}}
        \cup {UpdateBody("abc", "vc", k, "https://b.io", NoMeta) : k \in KeyInputs}
        \cup {UpdateBody("abc", "vc", SecretKeyOf(1), "", Meta("", "")),
              UpdateBody("abc", "vc", SecretKeyOf(1), "http://a.io", NoMeta),
              UpdateBody("abc", "vc", SecretKeyOf(1), "", [title |-> Some("T"), description |-> Absent]),
              UpdateBody("abc", "vc", "", "", NoMeta),
              UpdateBody("abc", "com", SecretKeyOf(1), "", NoMeta),
              UpdateBody("nope", "vc", SecretKeyOf(1), "", NoMeta)}

DeleteBody(d, t, k) == [domain |-> d, tld |-> t, secretKey |-> k]

DeleteBodies ==
    {DeleteBody("abc", "vc", k) : k \in KeyInputs \cup {""}}
        \cup {DeleteBody("abc", "com", SecretKeyOf(1)),
              DeleteBody("", "vc", SecretKeyOf(1)),
              DeleteBody("nope", "vc", SecretKeyOf(1))}

\* req.params of /lookup/:domain/:tld, and of /check/:domain with req.query.tld
Params(d, t) == [domain |-> d, tld |-> t]

LookupParams == {Params("abc", "vc"), Params("Abc", "vc"), Params("abc", "at"),
                 Params("abc", "com")}

CheckParams == {Params("abc", "vc"), Params("abc", "at"), Params("abc", ""),
                Params("abc", "com")}

\* generated targets: a prefix and a path of up to MaxPieces pieces
PathPieces == {"u", "/", "/blob/"}

RECURSIVE Paths(_)
Paths(n) ==
    IF n = 0 THEN {""}
    ELSE Paths(n - 1) \cup {p \o x : p \in Paths(n - 1), x \in PathPieces}

TargetPrefixes == {"https://github.com/", "https://github.com",
                   "https://raw.githubusercontent.com/", "https://a.io/",
                   "http://github.com/"}

Targets ==
    {h \o p : h \in TargetPrefixes, p \in Paths(MaxPieces)}
        \cup {"", "10.0.0.1", "10.0.0.1:8080", "github.com/u"}

\* register bodies for one name, over the generated targets
TargetBodies ==
    {RegisterBody(d, "vc", g, NoMeta) : d \in {"abc", "Abc"}, g \in Targets}

\* req.query of /search
SearchQueries == {[q |-> ""], [q |-> "T"], [q |-> "D"]}

\* ------------------------------------------------------------ the collection
\* Site.findOne({ domain, tld }): the query is cast through the schema, so the
\* lowercase setter applies to domain; the first match in insertion order
FindOne(domain, tld) ==
    LET m == {d \in store : d.domain = ToLowerCase(domain) /\ d.tld = tld}
    IN  IF m = {} THEN NoDoc ELSE CHOOSE d \in m : \A e \in m : d.id <= e.id

\* a constructor that is handed the whole body
NewSite_WholeBody(id, b, hash) ==
    [id |-> id,
     domain |-> ToLowerCase(b.domain),
     tld |-> b.tld,
     target |-> b.target,
     secretKeyHash |-> hash,
     title |-> b.title,
     description |-> b.description,
     verified |-> IF "verified" \in DOMAIN b THEN b.verified ELSE FALSE,
     createdAt |-> now,
     lastAccessed |-> now,
     keywords |-> <<>>,
     bodyText |-> Absent,
     indexedAt |-> now]

\* new Site({ domain, tld, target, secretKeyHash, title, description })
NewSite(id, b, hash) ==
    [id |-> id,
     domain |-> ToLowerCase(b.domain),
     tld |-> b.tld,
     target |-> b.target,
     secretKeyHash |-> hash,
     title |-> b.title,
     description |-> b.description,
     verified |-> FALSE,
     createdAt |-> now,
     lastAccessed |-> now,
     keywords |-> <<>>,
     bodyText |-> Absent,
     indexedAt |-> now]

OptLen(o) == IF o = Absent THEN 0 ELSE Len(o[1])

\* document validation on save: the paths of siteSchema that fail, "" when none
ValidationError(d) ==
    IF Len(d.domain) < DomainMinLen \/ Len(d.domain) > DomainMaxLen THEN "domain"
    ELSE IF d.tld \notin ValidTlds THEN "tld"
    ELSE IF ~TargetValidator(d.target) THEN "target"
    ELSE IF OptLen(d.title) > TitleMaxLen THEN "title"
    ELSE IF OptLen(d.description) > DescriptionMaxLen THEN "description"
    ELSE ""

\* the collection without its unique index
DuplicateKey_NoIndex(d) == FALSE

\* the unique index that siteSchema declares: on domain alone
DuplicateKey(d) == \E e \in store : e.domain = d.domain

\* the paths a handler changed on its copy of the document
ModifiedPaths(old, new) ==
    {f \in {"target", "title", "description", "lastAccessed"} : old[f] # new[f]}

\* doc.save() of a loaded document: $set of the modified paths on the stored
\* document with the same _id
SavedStore(old, new) ==
    {IF e.id = new.id
     THEN [f \in DOMAIN e |-> IF f \in ModifiedPaths(old, new) THEN new[f] ELSE e[f]]
     ELSE e : e \in store}

\* the outcome of doc.save() of a loaded document: validation first, then the
\* write (or, with nothing modified, the existence check) by _id
SaveOutcome(old, new) ==
    IF ValidationError(new) # "" THEN "ValidationError"
    ELSE IF \A e \in store : e.id # new.id THEN "DocumentNotFoundError"
    ELSE "ok"

\* the operations doc.save() of a loaded document issues: none when validation
\* fails, else the update (or, with nothing modified, the existence check) by _id
SaveIo(old, new) ==
    IF ValidationError(new) # "" THEN <<>>
    ELSE IF ModifiedPaths(old, new) = {} THEN <<"findOne">>
    ELSE <<"updateOne">>

\* --------------------------------------------------------------- responses
StringFields == {"error", "message", "domain", "tld", "target", "rawBase", "secretKey",
                 "secretKeyHash"}
OptionFields == {"title", "description"}

\* the strings a flat JSON object carries
FlatStrings(o) ==
    {o[f] : f \in DOMAIN o \cap StringFields}
        \cup {o[f][1] : f \in {g \in DOMAIN o \cap OptionFields : o[g] # Absent}}

\* every string of a response body
BodyStrings(body) ==
    FlatStrings(body)
        \cup (IF "site" \in DOMAIN body THEN FlatStrings(body.site) ELSE {})
        \cup (IF "results" \in DOMAIN body
              THEN UNION {FlatStrings(body.results[i]) : i \in DOMAIN body.results}
              ELSE {})

\* every field name of a response body
BodyFields(body) ==
    DOMAIN body
        \cup (IF "site" \in DOMAIN body THEN DOMAIN body.site ELSE {})
        \cup (IF "results" \in DOMAIN body
              THEN UNION {DOMAIN body.results[i] : i \in DOMAIN body.results}
              ELSE {})

\* res.status(status).json(body)
Reply(op, b, status, body) ==
    /\ last' = [op |-> op, req |-> b, status |-> status, body |-> body]
    /\ shown' = [k \in SecretPool |->
                    IF k \in BodyStrings(body) THEN shown[k] + 1 ELSE shown[k]]

NoReply == last' = NoResponse /\ UNCHANGED shown

\* the step issues the operations ops on the collection, in that order
Io(ops) == io' = ops

\* a request arrives on connection s, the first one that is free
Accept(s) ==
    /\ req[s].pc = "idle"
    /\ \A t \in Slots : t < s => req[t].pc # "idle"
    /\ started < MaxRequests
    /\ started' = started + 1

Done(s) == req' = [req EXCEPT ![s] = Idle]

Await(s, pc, op, b, site) ==
    req' = [req EXCEPT ![s] = [pc |-> pc, op |-> op, body |-> b, site |-> site]]

At(s, pc, op) == req[s].pc = pc /\ req[s].op = op

\* the registry after start-up, with an empty collection
InitRegistry ==
    /\ store = {}
    /\ req = [s \in Slots |-> Idle]
    /\ last = NoResponse
    /\ now = 0
    /\ started = 0
    /\ nextId = 1
    /\ issued = {}
    /\ shown = [k \in SecretPool |-> 0]
    /\ keyOf = <<>>
    /\ bodyOf = <<>>
    /\ io = <<>>

\* the service after a start-up that connected and listens
InitServer ==
    /\ db = "connected"
    /\ listening = TRUE

\* the browser after createWindow, with no request in flight
InitBrowser ==
    /\ current = [c \in Contents |-> IF c = "main" THEN StartPage ELSE ""]
    /\ ipc = NoResult
    /\ files = Bundled
    /\ virt = Idle
    /\ net = <<>>
    /\ result = NoResult
    /\ bookmarks = NoFile
    /\ answer = NoResult

Init ==
    /\ InitRegistry
    /\ InitServer
    /\ InitBrowser
    /\ arg = ""
    /\ out = <<>>

\* ------------------------------------------------------- POST /api/register
\* the handler up to the result of its findOne
RegisterFind(s, b) ==
    /\ Accept(s)
    /\ UNCHANGED <<store, now, nextId, issued, keyOf, bodyOf, others>>
    /\ IF b.domain = "" \/ b.tld = "" \/ b.target = ""
       THEN Reply("register", b, 400, [error |-> "Missing required fields"])
            /\ Io(<<>>) /\ UNCHANGED req
       ELSE IF b.tld \notin ValidTlds
       THEN Reply("register", b, 400, [error |-> "Invalid TLD"])
            /\ Io(<<>>) /\ UNCHANGED req
       ELSE IF FindOne(b.domain, b.tld).id # 0
       THEN Reply("register", b, 409, [error |-> "Domain already registered"])
            /\ Io(<<"findOne">>) /\ UNCHANGED req
       ELSE Await(s, "save", "register", b, NoDoc) /\ Io(<<"findOne">>) /\ NoReply

\* the 201 body of register
RegisterJson(b, secretKey) ==
    [success |-> TRUE,
     domain |-> b.domain \o "." \o b.tld,
     secretKey |-> secretKey,
     message |-> "SAVE THIS KEY! If you lose it, you cannot update your site."]

\* from the generated key to the response of newSite.save()
RegisterSave(s) ==
    /\ At(s, "save", "register")
    /\ Done(s)
    /\ UNCHANGED <<now, started, others>>
    /\ \E salt \in Salts :
        LET b == req[s].body
            secretKey == SecretKeyOf(Cardinality(issued) + 1)
            newSite == NewSite(nextId, b, BcryptHash(secretKey, salt))
        IN  /\ issued' = issued \cup {secretKey}
            /\ IF ValidationError(newSite) # ""
               THEN /\ Reply("register", b, 400,
                             [error |-> "Site validation failed: " \o ValidationError(newSite)])
                    /\ Io(<<>>)
                    /\ UNCHANGED <<store, nextId, keyOf, bodyOf>>
               ELSE IF DuplicateKey(newSite)
               THEN /\ Reply("register", b, 500, [error |-> "Server error"])
                    /\ Io(<<"insertOne">>)
                    /\ UNCHANGED <<store, nextId, keyOf, bodyOf>>
               ELSE /\ store' = store \cup {newSite}
                    /\ Io(<<"insertOne">>)
                    /\ nextId' = nextId + 1
                    /\ keyOf' = Append(keyOf, secretKey)
                    /\ bodyOf' = Append(bodyOf, b)
                    /\ Reply("register", b, 201, RegisterJson(b, secretKey))

\* ---------------------------------------------------------- PUT /api/update
\* the handler up to the result of its findOne
UpdateFind(s, b) ==
    /\ Accept(s)
    /\ UNCHANGED <<store, now, nextId, issued, keyOf, bodyOf, others>>
    /\ IF b.domain = "" \/ b.tld = "" \/ b.secretKey = ""
       THEN Reply("update", b, 400, [error |-> "Missing required fields"])
            /\ Io(<<>>) /\ UNCHANGED req
       ELSE IF b.tld \notin ValidTlds
       THEN Reply("update", b, 400, [error |-> "Invalid TLD"])
            /\ Io(<<>>) /\ UNCHANGED req
       ELSE IF FindOne(b.domain, b.tld).id = 0
       THEN Reply("update", b, 404, [error |-> "Domain not found"])
            /\ Io(<<"findOne">>) /\ UNCHANGED req
       ELSE Await(s, "verify", "update", b, FindOne(b.domain, b.tld))
            /\ Io(<<"findOne">>) /\ NoReply

\* bcrypt.compare of the presented key with the loaded document's hash
UpdateVerify(s) ==
    /\ At(s, "verify", "update")
    /\ UNCHANGED <<store, now, started, nextId, issued, keyOf, bodyOf, others>>
    /\ Io(<<>>)
    /\ IF ~BcryptCompare(req[s].body.secretKey, req[s].site.secretKeyHash)
       THEN Reply("update", req[s].body, 401, [error |-> "Invalid secret key"]) /\ Done(s)
       ELSE Await(s, "save", "update", req[s].body, req[s].site) /\ NoReply

\* the assignments to the loaded document
UpdatedSite(site, b) ==
    [site EXCEPT
        !.target = IF b.target # "" THEN b.target ELSE @,
        !.title = IF b.title # Absent THEN b.title ELSE @,
        !.description = IF b.description # Absent THEN b.description ELSE @,
        !.lastAccessed = now]

\* the 200 body of update
UpdateJson(site) ==
    [success |-> TRUE,
     message |-> "Domain updated successfully",
     site |-> [domain |-> site.domain,
               tld |-> site.tld,
               target |-> site.target,
               title |-> site.title,
               description |-> site.description,
               lastAccessed |-> site.lastAccessed]]

\* the assignments, site.save() and the response
UpdateSave(s) ==
    /\ At(s, "save", "update")
    /\ Done(s)
    /\ UNCHANGED <<now, started, nextId, issued, keyOf, bodyOf, others>>
    /\ LET b == req[s].body
           old == req[s].site
           site == UpdatedSite(old, b)
       IN  IF SaveOutcome(old, site) # "ok"
           THEN /\ Reply("update", b, 500, [error |-> "Server error"])
                /\ Io(SaveIo(old, site))
                /\ UNCHANGED store
           ELSE /\ store' = SavedStore(old, site)
                /\ Io(SaveIo(old, site))
                /\ Reply("update", b, 200, UpdateJson(site))

\* ------------------------------------------------------- DELETE /api/delete
DeleteFind(s, b) ==
    /\ Accept(s)
    /\ UNCHANGED <<store, now, nextId, issued, keyOf, bodyOf, others>>
    /\ IF b.domain = "" \/ b.tld = "" \/ b.secretKey = ""
       THEN Reply("delete", b, 400, [error |-> "Missing required fields"])
            /\ Io(<<>>) /\ UNCHANGED req
       ELSE IF b.tld \notin ValidTlds
       THEN Reply("delete", b, 400, [error |-> "Invalid TLD"])
            /\ Io(<<>>) /\ UNCHANGED req
       ELSE IF FindOne(b.domain, b.tld).id = 0
       THEN Reply("delete", b, 404, [error |-> "Domain not found"])
            /\ Io(<<"findOne">>) /\ UNCHANGED req
       ELSE Await(s, "verify", "delete", b, FindOne(b.domain, b.tld))
            /\ Io(<<"findOne">>) /\ NoReply

DeleteVerify(s) ==
    /\ At(s, "verify", "delete")
    /\ UNCHANGED <<store, now, started, nextId, issued, keyOf, bodyOf, others>>
    /\ Io(<<>>)
    /\ IF ~BcryptCompare(req[s].body.secretKey, req[s].site.secretKeyHash)
       THEN Reply("delete", req[s].body, 401, [error |-> "Invalid secret key"]) /\ Done(s)
       ELSE Await(s, "delete", "delete", req[s].body, req[s].site) /\ NoReply

\* a delete that answers without removing anything
StoreWithout_Keep(id) == store

\* Site.deleteOne({ _id })
StoreWithout(id) == {e \in store : e.id # id}

\* a handler that deletes by the name it was asked for
DeleteOne_ByName(s) ==
    /\ At(s, "delete", "delete")
    /\ Done(s)
    /\ UNCHANGED <<now, started, nextId, issued, keyOf, bodyOf, others>>
    /\ store' = {e \in store : ~(e.domain = req[s].site.domain /\ e.tld = req[s].site.tld)}
    /\ Io(<<"deleteOne">>)
    /\ Reply("delete", req[s].body, 200,
             [success |-> TRUE, message |-> "Domain deleted successfully"])

\* Site.deleteOne({ _id: site._id }) and the response
DeleteOne(s) ==
    /\ At(s, "delete", "delete")
    /\ Done(s)
    /\ UNCHANGED <<now, started, nextId, issued, keyOf, bodyOf, others>>
    /\ store' = StoreWithout(req[s].site.id)
    /\ Io(<<"deleteOne">>)
    /\ Reply("delete", req[s].body, 200,
             [success |-> TRUE, message |-> "Domain deleted successfully"])

\* ------------------------------------------ GET /api/lookup/:domain/:tld
LookupFind(s, b) ==
    /\ Accept(s)
    /\ UNCHANGED <<store, now, nextId, issued, keyOf, bodyOf, others>>
    /\ IF b.tld \notin ValidTlds
       THEN Reply("lookup", b, 400, [error |-> "Invalid TLD"])
            /\ Io(<<>>) /\ UNCHANGED req
       ELSE IF FindOne(b.domain, b.tld).id = 0
       THEN Reply("lookup", b, 404, [error |-> "Domain not found"])
            /\ Io(<<"findOne">>) /\ UNCHANGED req
       ELSE Await(s, "stamp", "lookup", b, FindOne(b.domain, b.tld))
            /\ Io(<<"findOne">>) /\ NoReply

\* the handler resumes with the loaded document: site.lastAccessed = new Date()
\* reads the clock, and site.save() is called with that value
LookupStamp(s) ==
    /\ At(s, "stamp", "lookup")
    /\ req' = [req EXCEPT ![s] = [pc |-> "save", op |-> "lookup", body |-> req[s].body,
                                  site |-> req[s].site, stamp |-> now]]
    /\ NoReply /\ Io(<<>>)
    /\ UNCHANGED <<store, now, started, nextId, issued, keyOf, bodyOf, others>>

\* a lookup body that serialises the stored hash as well
LookupJson_WithHash(site) ==
    [domain |-> site.domain,
     tld |-> site.tld,
     target |-> site.target,
     rawBase |-> RawBase(site.target),
     title |-> site.title,
     description |-> site.description,
     secretKeyHash |-> site.secretKeyHash,
     verified |-> site.verified,
     createdAt |-> site.createdAt,
     lastAccessed |-> site.lastAccessed]

\* the 200 body of lookup
LookupJson(site) ==
    [domain |-> site.domain,
     tld |-> site.tld,
     target |-> site.target,
     rawBase |-> RawBase(site.target),
     title |-> site.title,
     description |-> site.description,
     verified |-> site.verified,
     createdAt |-> site.createdAt,
     lastAccessed |-> site.lastAccessed]

\* the write of site.save() reaches the collection, and the response
LookupSave(s) ==
    /\ At(s, "save", "lookup")
    /\ Done(s)
    /\ UNCHANGED <<now, started, nextId, issued, keyOf, bodyOf, others>>
    /\ LET b == req[s].body
           old == req[s].site
           site == [old EXCEPT !.lastAccessed = req[s].stamp]
       IN  IF SaveOutcome(old, site) # "ok"
           THEN /\ Reply("lookup", b, 500, [error |-> "Server error"])
                /\ Io(SaveIo(old, site))
                /\ UNCHANGED store
           ELSE /\ store' = SavedStore(old, site)
                /\ Io(SaveIo(old, site))
                /\ Reply("lookup", b, 200, LookupJson(site))

\* ------------------------------------------------- GET /api/check/:domain
\* the whole handler: its one read of the collection is its last step
Check(s, b) ==
    /\ Accept(s)
    /\ UNCHANGED <<store, req, now, nextId, issued, keyOf, bodyOf, others>>
    /\ IF b.tld = "" \/ b.tld \notin ValidTlds
       THEN Reply("check", b, 400, [error |-> "Invalid TLD"]) /\ Io(<<>>)
       ELSE LET available == FindOne(b.domain, b.tld).id = 0
            IN  /\ Io(<<"findOne">>)
                /\ Reply("check", b, 200,
                         [domain |-> b.domain,
                          tld |-> b.tld,
                          available |-> available,
                          message |-> IF available THEN "Domain is available"
                                      ELSE "Domain is already registered"])

\* ------------------------------------------------------- GET /api/search
\* a one-word $search term matches a text field that holds that word
Matches(field, q) == field # Absent /\ ToLowerCase(field[1]) = ToLowerCase(q)

\* an index that weighs the body above the title
TextScore_BodyFirst(d, q) ==
    (IF Matches(d.title, q) THEN 1 ELSE 0)
        + (IF \E i \in DOMAIN d.keywords : Matches(Some(d.keywords[i]), q) THEN 3 ELSE 0)
        + (IF Matches(d.description, q) THEN 5 ELSE 0)
        + (IF Matches(d.bodyText, q) THEN 10 ELSE 0)

\* the text index of siteSchema: the weights of the fields that match
TextScore(d, q) ==
    (IF Matches(d.title, q) THEN 10 ELSE 0)
        + (IF \E i \in DOMAIN d.keywords : Matches(Some(d.keywords[i]), q) THEN 5 ELSE 0)
        + (IF Matches(d.description, q) THEN 3 ELSE 0)
        + (IF Matches(d.bodyText, q) THEN 1 ELSE 0)

\* .sort({ score: { $meta: "textScore" } }): descending score, then insertion order
RECURSIVE SortByScore(_, _)
SortByScore(S, q) ==
    IF S = {} THEN <<>>
    ELSE LET d == CHOOSE x \in S : \A y \in S :
                      \/ TextScore(x, q) > TextScore(y, q)
                      \/ TextScore(x, q) = TextScore(y, q) /\ x.id <= y.id
         IN  <<d>> \o SortByScore(S \ {d}, q)

\* .limit(n)
Limit(seq, n) == SubSeq(seq, 1, IF Len(seq) < n THEN Len(seq) ELSE n)

\* Site.find({ $text: { $search: q } }, ...).sort(...).limit(20)
FindText(q) == Limit(SortByScore({d \in store : TextScore(d, q) > 0}, q), SearchLimit)

\* one element of the 200 body of search
SearchJson(site) ==
    [domain |-> site.domain,
     tld |-> site.tld,
     title |-> site.title,
     description |-> site.description]

\* the whole handler: its one read of the collection is its last step
Search(s, b) ==
    /\ Accept(s)
    /\ UNCHANGED <<store, req, now, nextId, issued, keyOf, bodyOf, others>>
    /\ IF b.q = ""
       THEN Reply("search", b, 400, [error |-> "Query parameter required"]) /\ Io(<<>>)
       ELSE LET results == FindText(b.q)
            IN  /\ Io(<<"find">>)
                /\ Reply("search", b, 200,
                         [results |-> [i \in DOMAIN results |-> SearchJson(results[i])]])

\* the wall clock advances, up to the reading limit
Advance(limit) ==
    /\ now < limit
    /\ now' = now + 1
    /\ NoReply
    /\ Io(<<>>)
    /\ UNCHANGED <<store, req, started, nextId, issued, keyOf, bodyOf, others>>

Tick == Advance(MaxClock)

Next ==
    \/ \E s \in Slots, b \in RegisterBodies : RegisterFind(s, b)
    \/ \E s \in Slots : RegisterSave(s)
    \/ \E s \in Slots, b \in UpdateBodies : UpdateFind(s, b)
    \/ \E s \in Slots : UpdateVerify(s)
    \/ \E s \in Slots : UpdateSave(s)
    \/ \E s \in Slots, b \in DeleteBodies : DeleteFind(s, b)
    \/ \E s \in Slots : DeleteVerify(s)
    \/ \E s \in Slots : DeleteOne(s)
    \/ \E s \in Slots, b \in LookupParams : LookupFind(s, b)
    \/ \E s \in Slots : LookupStamp(s)
    \/ \E s \in Slots : LookupSave(s)
    \/ \E s \in Slots, b \in CheckParams : Check(s, b)
    \/ \E s \in Slots, b \in SearchQueries : Search(s, b)
    \/ Tick

Spec == Init /\ [][Next]_vars

\* --------------------------------------------------- an indexed collection
\* the text fields of a document, by what they hold of the word T
TextKinds ==
    <<[title |-> Some("T"), keywords |-> <<>>, description |-> Absent, bodyText |-> Absent],
      [title |-> Absent, keywords |-> <<>>, description |-> Absent, bodyText |-> Some("T")],
      [title |-> Some("U"), keywords |-> <<"T">>, description |-> Absent, bodyText |-> Absent],
      [title |-> Absent, keywords |-> <<>>, description |-> Some("T"), bodyText |-> Some("D")],
      [title |-> Some("U"), keywords |-> <<"K">>, description |-> Some("V"), bodyText |-> Absent],
      [title |-> Some("T"), keywords |-> <<"D">>, description |-> Absent, bodyText |-> Some("T")]>>

\* the i-th document of a collection whose keywords and bodyText an indexer
\* has filled in
IndexedSite(i, k) ==
    LET t == TextKinds[((i + k) % Len(TextKinds)) + 1]
    IN  [id |-> i,
         domain |-> "doc" \o Lower[((i - 1) \div 26) + 1] \o Lower[((i - 1) % 26) + 1],
         tld |-> "vc",
         target |-> "https://a.io",
         secretKeyHash |-> BcryptHash(SecretKeyOf(1), "s1"),
         title |-> t.title,
         description |-> t.description,
         verified |-> FALSE,
         createdAt |-> 0,
         lastAccessed |-> 0,
         keywords |-> t.keywords,
         bodyText |-> t.bodyText,
         indexedAt |-> 0]

Corpus(n, k) == {IndexedSite(i, k) : i \in 1..n}

\* the sizes of the collections searched: empty, small, and around the limit
CorpusSizes == {0, 3, 12} \cup ((MaxDocs - 2)..MaxDocs)

InitSearch ==
    /\ \E n \in CorpusSizes, k \in 0..(Len(TextKinds) - 1) :
            store = Corpus(n, k) /\ nextId = n + 1
    /\ req = [s \in Slots |-> Idle]
    /\ last = NoResponse
    /\ now = 0
    /\ started = 0
    /\ issued = {}
    /\ shown = [k \in SecretPool |-> 0]
    /\ keyOf = <<>>
    /\ bodyOf = <<>>
    /\ io = <<>>
    /\ InitServer
    /\ InitBrowser
    /\ arg = ""
    /\ out = <<>>

NextSearch == \E s \in Slots, b \in SearchQueries : Search(s, b)

SpecSearch == InitSearch /\ [][NextSearch]_vars

\* ------------------------------------------------------------- start-up
\* app.listen(PORT): called by the start-up script itself, before any callback
\* of mongoose.connect can run
Listen ==
    /\ ~listening
    /\ listening' = TRUE
    /\ NoReply /\ Io(<<>>)
    /\ UNCHANGED <<store, req, now, started, nextId, issued, keyOf, bodyOf, db, browser,
                   arg, out>>

\* mongoose.connect(...).then: logs
ConnectSucceeds ==
    /\ listening
    /\ db = "connecting"
    /\ db' = "connected"
    /\ NoReply /\ Io(<<>>)
    /\ UNCHANGED <<store, req, now, started, nextId, issued, keyOf, bodyOf, listening,
                   browser, arg, out>>

\* mongoose.connect(...).catch: logs
ConnectFails ==
    /\ listening
    /\ db = "connecting"
    /\ db' = "failed"
    /\ NoReply /\ Io(<<>>)
    /\ UNCHANGED <<store, req, now, started, nextId, issued, keyOf, bodyOf, listening,
                   browser, arg, out>>

\* what the handler of op answers before its first operation on the
\* collection: the error of its 400, "" when the request passes
EarlyError(op, b) ==
    CASE op = "register" ->
            IF b.domain = "" \/ b.tld = "" \/ b.target = "" THEN "Missing required fields"
            ELSE IF b.tld \notin ValidTlds THEN "Invalid TLD" ELSE ""
      [] op \in {"update", "delete"} ->
            IF b.domain = "" \/ b.tld = "" \/ b.secretKey = "" THEN "Missing required fields"
            ELSE IF b.tld \notin ValidTlds THEN "Invalid TLD" ELSE ""
      [] op = "search" -> IF b.q = "" THEN "Query parameter required" ELSE ""
      [] OTHER -> IF b.tld = "" \/ b.tld \notin ValidTlds THEN "Invalid TLD" ELSE ""

\* the requests of every route
Requests ==
    {<<"register", b>> : b \in RegisterBodies}
        \cup {<<"update", b>> : b \in UpdateBodies}
        \cup {<<"delete", b>> : b \in DeleteBodies}
        \cup {<<"lookup", b>> : b \in LookupParams}
        \cup {<<"check", b>> : b \in CheckParams}
        \cup {<<"search", b>> : b \in SearchQueries}

\* a request served while the connection has failed: the handler's first
\* operation on the collection is rejected and its catch answers
Unavailable(s, op, b) ==
    /\ listening
    /\ db = "failed"
    /\ Accept(s)
    /\ UNCHANGED <<store, req, now, nextId, issued, keyOf, bodyOf, others>>
    /\ IF EarlyError(op, b) # ""
       THEN Reply(op, b, 400, [error |-> EarlyError(op, b)]) /\ Io(<<>>)
       ELSE /\ Reply(op, b, 500, [error |-> "Server error"])
            /\ Io(<<IF op = "search" THEN "find" ELSE "findOne">>)

\* the start-up script has run up to mongoose.connect
InitStartup ==
    /\ InitRegistry
    /\ db = "connecting"
    /\ listening = FALSE
    /\ InitBrowser
    /\ arg = ""
    /\ out = <<>>

NextStartup ==
    \/ Listen
    \/ ConnectSucceeds
    \/ ConnectFails
    \/ \E s \in Slots, r \in Requests : Unavailable(s, r[1], r[2])
    \/ (listening /\ db = "connected" /\ Next)

SpecStartup == InitStartup /\ [][NextStartup]_vars

\* one caller, one request at a time: first a register of a generated target
\* into the empty collection, then lookups of the name
NextLookup ==
    \/ \E b \in TargetBodies : started = 0 /\ RegisterFind(1, b)
    \/ RegisterSave(1)
    \/ \E b \in {Params("abc", "vc"), Params("Abc", "vc")} : LookupFind(1, b)
    \/ LookupStamp(1)
    \/ LookupSave(1)
    \/ Tick

SpecLookup == Init /\ [][NextLookup]_vars

\* the read-only routes and overlapping lookups of one registered name
NextAccess ==
    \/ \E s \in Slots :
            started = 0 /\ RegisterFind(s, RegisterBody("abc", "vc", "https://a.io", NoMeta))
    \/ \E s \in Slots : RegisterSave(s)
    \/ \E s \in Slots, b \in LookupParams : LookupFind(s, b)
    \/ \E s \in Slots : LookupStamp(s)
    \/ \E s \in Slots : LookupSave(s)
    \/ \E s \in Slots, b \in CheckParams : Check(s, b)
    \/ \E s \in Slots, b \in SearchQueries : Search(s, b)
    \/ Advance(MaxReadings)

SpecAccess == Init /\ [][NextAccess]_vars

\* targets of every shape: the two accepted patterns and their near misses
ShapedTargets ==
    {"https://a.io", "https://x", "https://", "http://a.io", "HTTPS://a.io", " https://a.io",
     "a.io", "ftp://a.io", "10.0.0.1", "10.0.0.1:8080", "999.1.1.1", "10.0.0.1:65536",
     "10.0.0", "10.0.0.1:", "10.0.0.1:123456", "1000.0.0.1", "10.0.0.1/x", "10.0.0.1.",
     "10..0.1", "10.0.0.1\n", "https://\n"}

\* a register of one name with a shaped target into the empty collection,
\* then updates of it with shaped targets
NextTargets ==
    \/ \E s \in Slots, g \in ShapedTargets :
            started = 0 /\ RegisterFind(s, RegisterBody("abc", "vc", g, NoMeta))
    \/ \E s \in Slots : RegisterSave(s)
    \/ \E s \in Slots, g \in ShapedTargets \cup {""} :
            UpdateFind(s, UpdateBody("abc", "vc", SecretKeyOf(1), g, NoMeta))
    \/ \E s \in Slots : UpdateVerify(s)
    \/ \E s \in Slots : UpdateSave(s)

SpecTargets == Init /\ [][NextTargets]_vars

\* a body that carries a verified field besides its own
Verified(b) == ("verified" :> TRUE) @@ b

\* every route on one name, with bodies that carry verified: true
NextVerified ==
    \/ \E s \in Slots, b \in {RegisterBody("abc", "vc", "https://a.io", NoMeta),
                               Verified(RegisterBody("abc", "vc", "https://a.io", NoMeta))} :
            RegisterFind(s, b)
    \/ \E s \in Slots : RegisterSave(s)
    \/ \E s \in Slots, b \in {UpdateBody("abc", "vc", SecretKeyOf(1), "", Meta("T", "D")),
                               Verified(UpdateBody("abc", "vc", SecretKeyOf(1),
                                                   "https://b.io", NoMeta))} :
            UpdateFind(s, b)
    \/ \E s \in Slots : UpdateVerify(s)
    \/ \E s \in Slots : UpdateSave(s)
    \/ \E s \in Slots : DeleteFind(s, Verified(DeleteBody("abc", "vc", SecretKeyOf(1))))
    \/ \E s \in Slots : DeleteVerify(s)
    \/ \E s \in Slots : DeleteOne(s)
    \/ \E s \in Slots : LookupFind(s, Params("abc", "vc"))
    \/ \E s \in Slots : LookupStamp(s)
    \/ \E s \in Slots : LookupSave(s)
    \/ \E s \in Slots : Search(s, [q |-> "T"])

SpecVerified == Init /\ [][NextVerified]_vars

\* the registry once abc.vc has been registered, with the first key
InitRegistered ==
    /\ now = 0
    /\ store = {NewSite(1, RegisterBody("abc", "vc", "https://a.io", NoMeta),
                        BcryptHash(SecretKeyOf(1), "s1"))}
    /\ req = [s \in Slots |-> Idle]
    /\ last = NoResponse
    /\ started = 0
    /\ nextId = 2
    /\ issued = {SecretKeyOf(1)}
    /\ shown = [k \in SecretPool |-> IF k = SecretKeyOf(1) THEN 1 ELSE 0]
    /\ keyOf = <<SecretKeyOf(1)>>
    /\ bodyOf = <<RegisterBody("abc", "vc", "https://a.io", NoMeta)>>
    /\ io = <<>>
    /\ InitServer
    /\ InitBrowser
    /\ arg = ""
    /\ out = <<>>

\* updates and deletes by the holder of the first key, and registers of the
\* same name
NextReborn ==
    \/ \E s \in Slots, b \in {RegisterBody("abc", "vc", "https://c.io", NoMeta),
                               RegisterBody("abc", "at", "https://c.io", NoMeta)} :
            RegisterFind(s, b)
    \/ \E s \in Slots : RegisterSave(s)
    \/ \E s \in Slots, b \in {UpdateBody("abc", "vc", SecretKeyOf(1), "https://b.io", NoMeta),
                               UpdateBody("abc", "vc", SecretKeyOf(1), "", Meta("T", "D"))} :
            UpdateFind(s, b)
    \/ \E s \in Slots : UpdateVerify(s)
    \/ \E s \in Slots : UpdateSave(s)
    \/ \E s \in Slots : DeleteFind(s, DeleteBody("abc", "vc", SecretKeyOf(1)))
    \/ \E s \in Slots : DeleteVerify(s)
    \/ \E s \in Slots : DeleteOne(s)

SpecReborn == InitRegistered /\ [][NextReborn]_vars

\* the rewrite applied on its own: to a target, then to its own result
ApplyRawBase ==
    /\ Len(out) < 2
    /\ out' = Append(out, RawBase(IF out = <<>> THEN arg ELSE out[Len(out)]))
    /\ UNCHANGED <<registry, server, browser, arg>>

InitRewrite ==
    /\ InitRegistry
    /\ InitServer
    /\ InitBrowser
    /\ arg \in Targets
    /\ out = <<>>

NextRewrite == ApplyRawBase

SpecRewrite == InitRewrite /\ [][NextRewrite]_vars

\* ------------------------------------------------- the navigation validator
\* a validator that does not look at the scheme
IsValidVirtUrl_NoScheme(url) ==
    LET validTlds == {".vc", ".vmc", ".at", ".lit"}
    IN  \/ url \in {"virt://register.at", "virt://lookin.at", "virt://v12browser.vc"}
        \/ \E tld \in validTlds : EndsWith(url, tld)

\* isValidVirtUrl(url)
IsValidVirtUrl(url) ==
    LET validTlds == {".vc", ".vmc", ".at", ".lit"}
        isSystemPage == \/ url = "virt://register.at"
                        \/ url = "virt://lookin.at"
                        \/ url = "virt://v12browser.vc"
        hasValidTld == \E tld \in validTlds : EndsWith(url, tld)
    IN  StartsWith(url, "virt://") /\ (isSystemPage \/ hasValidTld)

\* generated URLs: a scheme, a name and an ending
UrlSchemes == {"virt://", "https://", "http://", "", "virt:/", "VIRT://"}
UrlNames == {"", "abc", "register", "lookin", "v12browser", "example", "."}
UrlEndings == {"", ".vc", ".vmc", ".at", ".lit", ".com", ".", "vc", ".vc/", ".VC", ".at/x"}

Urls == {h \o n \o e : h \in UrlSchemes, n \in UrlNames, e \in UrlEndings}

\* the validator applied on its own
ApplyIsValidVirtUrl ==
    /\ out = <<>>
    /\ out' = <<IsValidVirtUrl(arg)>>
    /\ UNCHANGED <<registry, server, browser, arg>>

InitValidator ==
    /\ InitRegistry
    /\ InitServer
    /\ InitBrowser
    /\ arg \in Urls
    /\ out = <<>>

NextValidator == ApplyIsValidVirtUrl

SpecValidator == InitValidator /\ [][NextValidator]_vars

\* ------------------------------------------------------------- navigation
\* the URLs that a renderer or a page asks to navigate to
NavUrls == {"virt://abc.vc", "virt://lookin.at", "virt://abc.com", "virt://",
            "https://example.com", "http://example.com", "file:///etc/passwd",
            "javascript:alert(1)", ""}

\* ipcMain.handle('v12:navigate') called by web contents c with url
Navigate(c, url) ==
    /\ UNCHANGED <<registry, server, files, virt, net, result, shelf, arg, out>>
    /\ IF StartsWith(url, "virt://")
       THEN IF IsValidVirtUrl(url)
            THEN /\ current' = [current EXCEPT ![c] = url]
                 /\ ipc' = [sender |-> c, url |-> url,
                            reply |-> [success |-> TRUE, type |-> "virt"]]
            ELSE /\ UNCHANGED current
                 /\ ipc' = [sender |-> c, url |-> url,
                            reply |-> [success |-> FALSE, error |-> "Invalid VIRT URL"]]
       ELSE IF StartsWith(url, "https://")
       THEN /\ current' = [current EXCEPT ![c] = url]
            /\ ipc' = [sender |-> c, url |-> url,
                       reply |-> [success |-> TRUE, type |-> "https"]]
       ELSE /\ UNCHANGED current
            /\ ipc' = [sender |-> c, url |-> url,
                       reply |-> [success |-> FALSE, error |-> "Unsupported protocol"]]

\* the will-navigate listener that createWindow puts on the main window
MainWindowPrevents(url) == ~IsValidVirtUrl(url) /\ ~StartsWith(url, "https://")

\* the will-navigate listener that web-contents-created puts on every contents
AnyContentsPrevents(url) == ~StartsWith(url, "virt://") /\ ~StartsWith(url, "https://")

\* a will-navigate event on web contents c: the navigation goes on unless a
\* listener called event.preventDefault()
WillNavigate(c, url) ==
    /\ UNCHANGED <<registry, server, ipc, files, virt, net, result, shelf, arg, out>>
    /\ LET prevented == \/ c = "main" /\ MainWindowPrevents(url)
                        \/ AnyContentsPrevents(url)
       IN  current' = IF prevented THEN current ELSE [current EXCEPT ![c] = url]

NextNavigation ==
    \/ \E c \in Contents, url \in NavUrls : Navigate(c, url)
    \/ \E c \in Contents, url \in NavUrls : WillNavigate(c, url)

SpecNavigation == Init /\ [][NextNavigation]_vars

\* ------------------------------------------------------ the preload bridge
\* the values a page passes to the bridge: strings, and values of other types
Str(v) == [type |-> "string", value |-> v]
NonStrings == {[type |-> t, value |-> ""] : t \in {"undefined", "object", "number", "boolean"}}

WhiteSpace == {" ", "\t", "\n", "\r"}

\* String.prototype.trim()
RECURSIVE Trim(_)
Trim(v) ==
    IF Len(v) = 0 THEN v
    ELSE IF Char(v, 1) \in WhiteSpace THEN Trim(SubSeq(v, 2, Len(v)))
    ELSE IF Char(v, Len(v)) \in WhiteSpace THEN Trim(SubSeq(v, 1, Len(v) - 1))
    ELSE v

Letters == {Upper[k] : k \in 1..26} \cup {Lower[k] : k \in 1..26}

\* [a-zA-Z0-9.-]
NameChars == Letters \cup Digits \cup {".", "-"}

AllIn(v, chars) == \A i \in 1..Len(v) : Char(v, i) \in chars

\* /^[a-zA-Z0-9.-]+\.[a-zA-Z]{2,}$/
IsPlainDomain(v) ==
    \E i \in 2..Len(v) :
        /\ Char(v, i) = "."
        /\ AllIn(SubSeq(v, 1, i - 1), NameChars)
        /\ Len(v) - i >= 2
        /\ AllIn(SubSeq(v, i + 1, Len(v)), Letters)

\* /^[a-zA-Z0-9.-]+$/
IsPlainTerm(v) == Len(v) >= 1 /\ AllIn(v, NameChars)

Throws(message) == [kind |-> "throws", error |-> message]
Invokes(channel, url) == [kind |-> "invoke", channel |-> channel, url |-> url]

\* a bridge that forwards a plain domain as it was typed
NavigateToUrl_AsTyped(url) ==
    IF url.type # "string" THEN Throws("Invalid URL: must be non-empty string")
    ELSE IF Trim(url.value) = "" THEN Throws("Invalid URL: must be non-empty string")
    ELSE LET cleanUrl == Trim(url.value)
         IN  IF StartsWith(cleanUrl, "virt://") \/ StartsWith(cleanUrl, "https://")
             THEN Invokes("v12:navigate", cleanUrl)
             ELSE IF IsPlainDomain(cleanUrl) THEN Invokes("v12:navigate", cleanUrl)
             ELSE IF IsPlainTerm(cleanUrl)
             THEN Invokes("v12:navigate", "https://" \o cleanUrl \o ".com")
             ELSE Throws("Invalid URL format")

\* v12API.navigateToUrl(url) up to its await: what it throws, or what it
\* sends on which channel
NavigateToUrl(url) ==
    IF url.type # "string" THEN Throws("Invalid URL: must be non-empty string")
    ELSE IF Trim(url.value) = "" THEN Throws("Invalid URL: must be non-empty string")
    ELSE LET cleanUrl == Trim(url.value)
         IN  IF StartsWith(cleanUrl, "virt://") \/ StartsWith(cleanUrl, "https://")
             THEN Invokes("v12:navigate", cleanUrl)
             ELSE IF IsPlainDomain(cleanUrl)
             THEN Invokes("v12:navigate", "https://" \o cleanUrl)
             ELSE IF IsPlainTerm(cleanUrl)
             THEN Invokes("v12:navigate", "https://" \o cleanUrl \o ".com")
             ELSE Throws("Invalid URL format")

\* what a page types: names, URLs of several schemes, and other text
TypedTexts ==
    {"", "virt://abc.vc", "virt://lookin.at", "virt://abc.com", "virt://", "virt://a b",
     "virt:/abc.vc", "VIRT://abc.vc", "https://example.com", "https://", "HTTPS://example.com",
     "http://example.com", "ftp://x.io", "file:///etc/passwd", "javascript:alert(1)",
     "example.com", "sub.example.com", "abc.vc", "youtube", "you tube", "a.b", "a.b1",
     "example.c", ".com", "-", "ex_ample.com", "example.com/path", "example.com:80"}

Paddings == {<<"", "">>, <<" ", "">>, <<"\t", " \n">>}

BridgeInputs ==
    {Str(pad[1] \o t \o pad[2]) : t \in TypedTexts, pad \in Paddings} \cup NonStrings

\* the page calls window.electronAPI.navigateToUrl(arg)
CallNavigateToUrl ==
    /\ out = <<>>
    /\ out' = <<NavigateToUrl(arg)>>
    /\ UNCHANGED <<registry, server, browser, arg>>

\* ipcRenderer.invoke reaches ipcMain.handle('v12:navigate'); the sender is
\* the main window's contents, the one that has the preload
Invoke ==
    /\ out # <<>>
    /\ out[1].kind = "invoke"
    /\ ipc = NoResult
    /\ Navigate("main", out[1].url)

InitBridge ==
    /\ InitRegistry
    /\ InitServer
    /\ InitBrowser
    /\ arg \in BridgeInputs
    /\ out = <<>>

NextBridge == CallNavigateToUrl \/ Invoke

SpecBridge == InitBridge /\ [][NextBridge]_vars

\* ------------------------------------------------------------ bookmarks
\* Date.now().toString()
DateNowString == ToString(now)

\* the default structure: an empty bookmark bar
DefaultChildren == <<>>

\* fs.existsSync(bookmarksPath), fs.readFileSync and JSON.parse: the children
\* of roots.bookmark_bar, those of the default structure when there is no file
LoadedChildren == IF bookmarks.exists THEN bookmarks.children ELSE DefaultChildren

\* fs.writeFileSync(bookmarksPath, JSON.stringify(bookmarks, null, 2))
WriteChildren(children) == bookmarks' = [exists |-> TRUE, children |-> children]

Answer(channel, input, reply) ==
    answer' = [kind |-> "answer", channel |-> channel, input |-> input, reply |-> reply]

\* Array.prototype.findIndex(b => b[key] === value), 1-based; 0 when no
\* element passes
FindIndex(seq, key, value) ==
    IF \E i \in DOMAIN seq : seq[i][key] = value
    THEN CHOOSE i \in DOMAIN seq :
            seq[i][key] = value /\ \A j \in 1..(i - 1) : seq[j][key] # value
    ELSE 0

\* Array.prototype.splice(index, 1)
Splice1(seq, index) == SubSeq(seq, 1, index - 1) \o SubSeq(seq, index + 1, Len(seq))

\* what pages ask to bookmark
BookmarkData ==
    {[url |-> u, title |-> t] :
        u \in {"virt://abc.vc", "https://example.com", "virt://lookin.at"},
        t \in {"", "T"}}

\* the ids pages ask to remove
BookmarkIds == {ToString(t) : t \in 0..MaxClock} \cup {""}

\* ipcMain.handle('v12:add-bookmark')
AddBookmark(bookmarkData) ==
    /\ UNCHANGED <<registry, server, current, ipc, files, virt, net, result, arg, out>>
    /\ LET children == LoadedChildren
           id == DateNowString
           bookmarkEntry == [date_added |-> DateNowString,
                             id |-> id,
                             name |-> IF bookmarkData.title # "" THEN bookmarkData.title
                                      ELSE bookmarkData.url,
                             type |-> "url",
                             url |-> bookmarkData.url]
       IN  IF FindIndex(children, "url", bookmarkData.url) # 0
           THEN /\ Answer("v12:add-bookmark", bookmarkData,
                          [success |-> FALSE, message |-> "Already bookmarked"])
                /\ UNCHANGED bookmarks
           ELSE /\ WriteChildren(Append(children, bookmarkEntry))
                /\ Answer("v12:add-bookmark", bookmarkData, [success |-> TRUE])

\* ipcMain.handle('v12:remove-bookmark')
RemoveBookmark(bookmarkId) ==
    /\ UNCHANGED <<registry, server, current, ipc, files, virt, net, result, arg, out>>
    /\ IF ~bookmarks.exists
       THEN /\ Answer("v12:remove-bookmark", bookmarkId,
                      [success |-> FALSE, message |-> "No bookmarks file found"])
            /\ UNCHANGED bookmarks
       ELSE LET index == FindIndex(bookmarks.children, "id", bookmarkId)
            IN  IF index = 0
                THEN /\ Answer("v12:remove-bookmark", bookmarkId,
                               [success |-> FALSE, message |-> "Bookmark not found"])
                     /\ UNCHANGED bookmarks
                ELSE /\ WriteChildren(Splice1(bookmarks.children, index))
                     /\ Answer("v12:remove-bookmark", bookmarkId, [success |-> TRUE])

NextBookmarks ==
    \/ \E bookmarkData \in BookmarkData : AddBookmark(bookmarkData)
    \/ \E bookmarkId \in BookmarkIds : RemoveBookmark(bookmarkId)
    \/ Tick

SpecBookmarks == Init /\ [][NextBookmarks]_vars

\* ------------------------------------------------- the virt:// protocol handler
\* new URL(request.url): the hostnames and pathnames of the requests
VirtHosts == {"register.at", "lookin.at", "v12browser.vc", "abc.vc", "abc.com", "abc",
              ".vc", "a.b.vc"}
VirtPaths == {"", "/", "/index.html", "/favicon.ico", "/style.css", "/missing.js"}

\* the pages of the system sites, and the other files src/assets may hold
Pages == {"registration.html", "search.html", "sales.html"}
Assets == {"favicon.ico", "style.css"}

\* String.prototype.split('.')
RECURSIVE SplitDot(_)
SplitDot(h) ==
    LET i == IndexOf(h, ".")
    IN  IF i = 0 THEN <<h>>
        ELSE <<SubSeq(h, 1, i - 1)>> \o SplitDot(SubSeq(h, i + 1, Len(h)))

\* const [domain, tld] = parts: an element that is not there is undefined,
\* which like the empty string is falsy
Nth(parts, n) == IF n \in DOMAIN parts THEN parts[n] ELSE ""

\* String.prototype.slice(1)
Slice1(t) == SubSeq(t, 2, Len(t))

Rejected == [kind |-> "rejected"]

\* the response of net.fetch(`file://...`) for a file under src/assets
FileResponse(path) == [kind |-> "file", path |-> path]

\* net.fetch(`file://...`): the file's content, a rejection when it is not there
FetchFile(path) == IF path \in files THEN FileResponse(path) ELSE Rejected

\* new Response(text, { status: 404 })
NotFound(text) == [kind |-> "response", status |-> 404, type |-> "text/plain", text |-> text]

\* new Response(placeholderHtml, { headers: { 'Content-Type': 'text/html' } })
Placeholder(hostname, says) ==
    [kind |-> "response", status |-> 200, type |-> "text/html",
     says |-> says, hostname |-> hostname, link |-> "virt://register.at"]

\* the document for a domain that is not registered
Fallback(hostname) == Placeholder(hostname, "is not yet registered")

\* the document of the catch around the target fetch
FailedToLoad(hostname) == Placeholder(hostname, "Failed to load content")

\* a handler that knows two of the system sites
IsSystemSite_Two(hostname) == hostname \in {"register.at", "lookin.at"}

\* hostname === 'register.at' / 'lookin.at' / 'v12browser.vc'
IsSystemSite(hostname) == hostname \in {"register.at", "lookin.at", "v12browser.vc"}

IsIndex(pathname) == pathname = "/" \/ pathname = "/index.html" \/ pathname = ""

\* the branch of a system site: what the handler returns
SystemSite(hostname, pathname) ==
    IF hostname = "register.at"
    THEN IF IsIndex(pathname) THEN FetchFile("registration.html")
         ELSE IF Slice1(pathname) \in files THEN FetchFile(Slice1(pathname))
         ELSE NotFound("Asset not found")
    ELSE LET relativePath ==
                 IF IsIndex(pathname)
                 THEN (IF hostname = "lookin.at" THEN "search.html" ELSE "sales.html")
                 ELSE Slice1(pathname)
         IN  IF relativePath \in files THEN FetchFile(relativePath)
             ELSE NotFound("Not Found")

\* the requests a returned value stands for: one local fetch, or none
FetchesOf(r) == IF r.kind = "file" THEN <<[kind |-> "file", path |-> r.path]>> ELSE <<>>

\* the handler has returned r for its request
Returned(hostname, pathname, r) ==
    /\ virt' = [pc |-> "done", hostname |-> hostname, pathname |-> pathname,
                settled |-> NoResult, fetch |-> "none"]
    /\ result' = r

\* a request arrives; the handler runs to its first await or to its return
VirtRequest(hostname, pathname) ==
    /\ virt.pc \in {"idle", "done"}
    /\ UNCHANGED <<registry, server, current, ipc, files, shelf, arg, out>>
    /\ IF pathname = "/favicon.ico" /\ "favicon.ico" \in files
       THEN /\ Returned(hostname, pathname, FetchFile("favicon.ico"))
            /\ net' = FetchesOf(FetchFile("favicon.ico"))
       ELSE IF IsSystemSite(hostname)
       THEN /\ Returned(hostname, pathname, SystemSite(hostname, pathname))
            /\ net' = FetchesOf(SystemSite(hostname, pathname))
       ELSE LET domain == Nth(SplitDot(hostname), 1)
                tld == Nth(SplitDot(hostname), 2)
            IN  IF domain # "" /\ tld # ""
                THEN /\ virt' = [pc |-> "lookup", hostname |-> hostname,
                                 pathname |-> pathname, settled |-> NoResult,
                                 fetch |-> "none"]
                     /\ net' = <<[kind |-> "lookup", domain |-> domain, tld |-> tld]>>
                     /\ result' = NoResult
                ELSE /\ Returned(hostname, pathname, Fallback(hostname))
                     /\ net' = <<>>

\* a body that is not JSON
Unparseable == [json |-> FALSE]

\* a JSON body; target is "" when the object has no such member
Json(target) == [json |-> TRUE, target |-> target]

\* how the lookup request to the registry can settle
LookupOutcomes ==
    {Rejected}
        \cup {[kind |-> "response", status |-> st, body |-> Json("")] : st \in {400, 404, 500}}
        \cup {[kind |-> "response", status |-> 200, body |-> b] :
                  b \in {Unparseable, Json("https://a.io"), Json("")}}

\* the network settles the lookup request
LookupSettles(o) ==
    /\ virt.pc = "lookup"
    /\ virt.settled = NoResult
    /\ virt' = [virt EXCEPT !.settled = o]
    /\ UNCHANGED <<registry, server, current, ipc, files, net, result, shelf, arg, out>>

\* a test that takes every status for a success
ResponseOk_Any(status) == TRUE

\* Response.ok
ResponseOk(status) == status \in 200..299

\* net.fetch(url) can throw before it returns a promise only for a url it cannot read
FetchModes(url) == IF url = "" THEN {"throws", "returns"} ELSE {"returns"}

\* the handler goes on after await net.fetch(lookup): dnsResponse.ok,
\* await dnsResponse.json(), return net.fetch(siteData.target)
LookupResume ==
    /\ virt.pc = "lookup"
    /\ virt.settled # NoResult
    /\ UNCHANGED <<registry, server, current, ipc, files, shelf, arg, out>>
    /\ LET o == virt.settled
           hostname == virt.hostname
           done == [virt EXCEPT !.pc = "done"]
       IN  IF o.kind = "rejected" \/ ~ResponseOk(o.status) \/ ~o.body.json
           THEN /\ virt' = done
                /\ result' = Fallback(hostname)
                /\ UNCHANGED net
           ELSE \E mode \in FetchModes(o.body.target) :
                    IF mode = "throws"
                    THEN /\ virt' = [done EXCEPT !.fetch = "threw"]
                         /\ result' = FailedToLoad(hostname)
                         /\ UNCHANGED net
                    ELSE /\ virt' = [virt EXCEPT !.pc = "target"]
                         /\ net' = Append(net, [kind |-> "target", url |-> o.body.target])
                         /\ UNCHANGED result

\* how the fetch of the target can settle
TargetOutcomes ==
    {Rejected} \cup {[kind |-> "remote", status |-> st] : st \in {200, 404}}

\* the network settles the target fetch; the handler has returned its promise,
\* so the handler's own promise settles the same way
TargetSettles(o) ==
    /\ virt.pc = "target"
    /\ virt' = [virt EXCEPT !.pc = "done",
                            !.fetch = IF o = Rejected THEN "rejected" ELSE "responded"]
    /\ result' = o
    /\ UNCHANGED <<registry, server, current, ipc, files, net, shelf, arg, out>>

InitVirt ==
    /\ InitRegistry
    /\ InitServer
    /\ current = [c \in Contents |-> IF c = "main" THEN StartPage ELSE ""]
    /\ ipc = NoResult
    /\ files \in {Pages \cup a : a \in SUBSET Assets}
    /\ virt = Idle
    /\ net = <<>>
    /\ result = NoResult
    /\ bookmarks = NoFile
    /\ answer = NoResult
    /\ arg = ""
    /\ out = <<>>

NextVirt ==
    \/ \E hostname \in VirtHosts, pathname \in VirtPaths : VirtRequest(hostname, pathname)
    \/ \E o \in LookupOutcomes : LookupSettles(o)
    \/ LookupResume
    \/ \E o \in TargetOutcomes : TargetSettles(o)

SpecVirt == InitVirt /\ [][NextVirt]_vars

\* the event loop runs the handler's continuation once the awaited promise has
\* settled; nothing makes the network settle a request
SpecVirtFair == SpecVirt /\ WF_vars(LookupResume)

\* ------------------------------------------------------------- properties
\* d holds the name that request b asks for
Holds(d, b) == d.domain = ToLowerCase(b.domain) /\ d.tld = b.tld

\* a register body with every required field, a reserved tld, a well-formed
\* target and a domain of 3 to 63 characters
WellFormedRegister(b) ==
    /\ b.domain # "" /\ b.tld \in ValidTlds
    /\ Len(b.domain) >= DomainMinLen /\ Len(b.domain) <= DomainMaxLen
    /\ TargetValidator(b.target)
    /\ OptLen(b.title) <= TitleMaxLen /\ OptLen(b.description) <= DescriptionMaxLen

Answered(op, status) == last.status = status /\ last.op = op

\* connection s takes the step that leaves pc of handler op
Leaves(s, pc, op) == At(s, pc, op) /\ req'[s] # req[s]

\* C1: in every reachable state there is at most one stored record for any
\* (domain, tld) pair.
C1_OneRecordPerPair ==
    \A d, e \in store : (d.domain = e.domain /\ d.tld = e.tld) => d = e

\* a register that lost a race for a name was refused by the collection
C1_Witness ==
    /\ Answered("register", 500)
    /\ \E d \in store : Holds(d, last.req)

\* C2: of two concurrent well-formed register requests for one (domain, tld)
\* the one that does not answer 201 answers 409.
C2_RaceLoserAnswers409 ==
    (/\ last.status # 0 /\ last.op = "register" /\ last.status # 201
     /\ WellFormedRegister(last.req)
     /\ \E d \in store : Holds(d, last.req))
        => last.status = 409

\* C3: a well-formed register request is rejected only if a record with the
\* same (domain, tld) pair exists; a domain held under one tld can be
\* registered under another.
C3_RejectedOnlyForSamePair ==
    (/\ last.status # 0 /\ last.op = "register" /\ last.status # 201
     /\ WellFormedRegister(last.req))
        => \E d \in store : Holds(d, last.req)

SameContent(d, e) ==
    /\ e.id = d.id
    /\ e.target = d.target /\ e.title = d.title /\ e.description = d.description
    /\ e.secretKeyHash = d.secretKeyHash

\* C4: an update or delete that presents a key other than the one issued at
\* the record's registration answers 401 and leaves the collection as it was;
\* a record loses its target, title or description, or is removed, only in a
\* step that answers 200 to an update or delete carrying that record's key.
C4_WrongKeyUnauthorized ==
    [][/\ \A s \in Slots :
            (/\ req[s].pc = "verify" /\ req'[s] # req[s]
             /\ req[s].body.secretKey # keyOf[req[s].site.id])
                => (last'.status = 401 /\ store' = store)
       /\ \A d \in store :
            (\A e \in store' : ~SameContent(d, e))
                => /\ last'.status = 200
                   /\ last'.op \in {"update", "delete"}
                   /\ last'.req.secretKey = keyOf[d.id]]_vars

\* an update with a wrong key was answered 401 and the record is there
C4_Witness ==
    /\ Answered("update", 401)
    /\ \E d \in store : Holds(d, last.req) /\ last.req.secretKey # keyOf[d.id]

AllHashes == {BcryptHash(k, salt) : k \in SecretPool, salt \in Salts}

\* C5: the secret key of a record is carried by exactly one response, the 201
\* of the register that created it; no other response carries a secret key or
\* a stored hash, and a search result has domain, tld, title and description
\* only.
C5_SecretShownOnce ==
    /\ \A i \in DOMAIN keyOf : shown[keyOf[i]] = 1
    /\ \A k \in SecretPool : shown[k] <= 1
    /\ Answered("register", 201) => last.body.secretKey = keyOf[Len(keyOf)]
    /\ (last.status # 0 /\ ~Answered("register", 201))
          => /\ BodyStrings(last.body) \cap (SecretPool \cup AllHashes) = {}
             /\ BodyFields(last.body) \cap {"secretKey", "secretKeyHash"} = {}
    /\ Answered("search", 200)
          => \A i \in DOMAIN last.body.results :
                DOMAIN last.body.results[i] = {"domain", "tld", "title", "description"}

\* a lookup answered 200 for a record whose key one response has carried
C5_Witness ==
    /\ Answered("lookup", 200)
    /\ \E d \in store : Holds(d, last.req) /\ shown[keyOf[d.id]] = 1

GithubPrefix == "https://github.com/"
RawPrefix == "https://raw.githubusercontent.com/"

\* the path of a github target, led by the slash that ends the host
GithubPath(t) == SubSeq(t, Len(GithubPrefix), Len(t))

\* the lookup answered 200 for record d, registered with target t
LookupOf(d, t) ==
    /\ Answered("lookup", 200)
    /\ Holds(d, last.req)
    /\ d.id \in DOMAIN bodyOf
    /\ t = bodyOf[d.id].target

\* C6 as stated: after a register, lookup answers the registered target, and
\* a rawBase equal to it unless it begins with https://github.com/; then
\* rawBase is the raw host followed by the path without its /blob/ segment
\* and ends in exactly one slash.
C6_RawBaseOneSlash ==
    \A d \in store : \A t \in {bodyOf[i].target : i \in DOMAIN bodyOf} :
        LookupOf(d, t)
            => /\ last.body.target = t
               /\ IF StartsWith(t, GithubPrefix)
                  THEN /\ StartsWith(last.body.rawBase, RawPrefix)
                       /\ EndsWith(last.body.rawBase, "/")
                       /\ ~EndsWith(last.body.rawBase, "//")
                  ELSE last.body.rawBase = t

\* C6 as amended: the same, with rawBase the raw host followed by the path
\* with its first /blob/ replaced by a slash and one trailing slash dropped,
\* and then one slash; so it ends in a slash, and in exactly one unless the
\* path so rewritten ends in two.
C6_RawBaseOfRegistered ==
    \A d \in store : \A t \in {bodyOf[i].target : i \in DOMAIN bodyOf} :
        LookupOf(d, t)
            => /\ last.body.target = t
               /\ IF StartsWith(t, GithubPrefix)
                  THEN LET path == ReplaceFirst(GithubPath(t), "/blob/", "/")
                       IN  /\ last.body.rawBase =
                                "https://raw.githubusercontent.com"
                                    \o StripTrailingSlash(path) \o "/"
                           /\ EndsWith(last.body.rawBase, "/")
                           /\ ~EndsWith(path, "//") => ~EndsWith(last.body.rawBase, "//")
                  ELSE last.body.rawBase = t

\* a lookup answered a github target that holds a /blob/ segment
C6_Witness ==
    \E d \in store :
        /\ LookupOf(d, bodyOf[d.id].target)
        /\ StartsWith(last.body.target, GithubPrefix)
        /\ IndexOf(last.body.target, "/blob/") # 0
        /\ IndexOf(last.body.rawBase, "/blob/") = 0

\* C7: the rewrite applied to its own result gives that result again, and a
\* target that does not begin with https://github.com/ is returned as it is.
C7_RewriteIdempotentGated ==
    /\ Len(out) = 2 => out[2] = out[1]
    /\ (Len(out) >= 1 /\ ~StartsWith(arg, GithubPrefix)) => out[1] = arg

\* the rewrite changed a github target, and was applied again to the result
C7_Witness ==
    /\ Len(out) = 2
    /\ StartsWith(arg, GithubPrefix)
    /\ out[1] # arg
    /\ StartsWith(out[1], RawPrefix)

\* C8: a delete with the right key answers 200 and removes the record; a
\* document enters the collection only by a register that answers 201 with a
\* new _id and a key never issued before; a request that arrives for a name
\* nobody holds is answered as for a name never registered (lookup 404, check
\* available, update and delete 404, register not 409); and a well-formed
\* register saved while its domain is free answers 201.
C8_DeletedIsGone ==
    [][/\ \A s \in Slots :
            Leaves(s, "delete", "delete")
                => /\ last'.status = 200
                   /\ \A d \in store' : d.id # req[s].site.id
                   /\ store' # store => \A d \in store' : ~Holds(d, req[s].body)
       /\ \A d \in store : d.id < nextId
       /\ nextId' >= nextId
       /\ \A d \in store' :
            (\A e \in store : e.id # d.id)
                => /\ last'.status = 201 /\ last'.op = "register"
                   /\ d.id = nextId
                   /\ Holds(d, last'.req)
                   /\ last'.body.secretKey \notin issued
                   /\ d.secretKeyHash \in {BcryptHash(last'.body.secretKey, salt) : salt \in Salts}
       /\ (/\ started' = started + 1 /\ last'.status # 0
           /\ last'.op \in {"lookup", "check", "update", "delete", "register"}
           /\ last'.req.domain # "" /\ last'.req.tld \in ValidTlds
           /\ \A d \in store : ~Holds(d, last'.req))
                => CASE last'.op = "lookup" -> last'.status = 404
                     [] last'.op = "check" -> last'.status = 200 /\ last'.body.available
                     [] last'.op = "register" -> last'.status = 400
                     [] OTHER -> last'.status = IF last'.req.secretKey = "" THEN 400 ELSE 404
       /\ \A s \in Slots :
            (/\ req[s].pc = "idle" /\ req'[s].pc # "idle"
             /\ \A d \in store : ~Holds(d, req'[s].body))
                => req'[s].op = "register"
       /\ \A s \in Slots :
            (/\ Leaves(s, "save", "register")
             /\ WellFormedRegister(req[s].body)
             /\ \A d \in store : d.domain # ToLowerCase(req[s].body.domain))
                => /\ last'.status = 201
                   /\ \E d \in store' : Holds(d, req[s].body) /\ d.id = nextId]_vars

\* the name abc.vc was registered, deleted, and registered again with another key
C8_Witness ==
    /\ Answered("register", 201)
    /\ Len(keyOf) = 2 /\ keyOf[1] # keyOf[2]
    /\ last.body.secretKey = keyOf[2]
    /\ store # {}
    /\ \A d \in store : d.id = 2 /\ d.domain = "abc" /\ d.tld = "vc"

\* C9: a successful update changes only the optional fields present in the
\* request: an absent field keeps its stored value, a supplied title or
\* description (the empty string too) replaces the stored one, lastAccessed
\* is refreshed, and nothing else of the collection changes.
C9_UpdateAppliesFields ==
    [][\A s \in Slots :
        (Leaves(s, "save", "update") /\ last'.status = 200)
            => LET b == req[s].body
               IN  /\ \E e \in store : e.id = req[s].site.id
                   /\ \A e \in store :
                        IF e.id # req[s].site.id THEN e \in store'
                        ELSE [e EXCEPT
                                !.target = IF b.target # "" THEN b.target ELSE @,
                                !.title = IF b.title # Absent THEN b.title ELSE @,
                                !.description =
                                    IF b.description # Absent THEN b.description ELSE @,
                                !.lastAccessed = now] \in store'
                   /\ Cardinality(store') = Cardinality(store)]_vars

\* C10: every failed register, update or delete is answered with a typed
\* reason (400, 401, 404 or 409), never with the generic server error.
C10_TypedFailure ==
    (/\ last.status >= 400
     /\ last.op \in {"register", "update", "delete"})
        => last.status \in {400, 401, 404, 409}

\* the four reserved tlds
ReservedTlds == {"vc", "vmc", "at", "lit"}

\* the fields that the handler of op requires are present in request b
RequiredPresent(op, b) ==
    CASE op = "register" -> b.domain # "" /\ b.tld # "" /\ b.target # ""
      [] op \in {"update", "delete"} -> b.domain # "" /\ b.tld # "" /\ b.secretKey # ""
      [] OTHER -> TRUE

\* C11: a check, register, update, delete or lookup request whose tld is not
\* one of vc, vmc, at, lit (its required fields being present) is answered
\* 400 'Invalid TLD' in the step that accepts it, which issues no operation on
\* the collection and leaves it as it was; and every stored record's tld is
\* one of the four.
C11_InvalidTldRejected ==
    [][/\ (/\ last'.status # 0
            /\ last'.op \in {"check", "register", "update", "delete", "lookup"}
            /\ last'.req.tld \notin ReservedTlds
            /\ RequiredPresent(last'.op, last'.req))
                => /\ last'.status = 400
                   /\ last'.body = [error |-> "Invalid TLD"]
                   /\ started' = started + 1
                   /\ io' = <<>>
                   /\ store' = store
       /\ \A d \in store \cup store' : d.tld \in ReservedTlds]_vars

\* a lookup of a held domain under an unknown tld was answered 400 without a read
C11_Witness ==
    /\ Answered("lookup", 400)
    /\ last.req.tld = "com"
    /\ io = <<>>
    /\ \E d \in store : d.domain = last.req.domain

\* url is the scheme prefix followed by something that ends in a dot and tag t
HasTag(url, t) ==
    /\ Len(url) >= Len(t) + 1
    /\ SubSeq(url, Len(url) - Len(t), Len(url)) = "." \o t

\* C12: isValidVirtUrl(url) is true exactly when url begins with virt:// and
\* is one of the three system names or ends with .vc, .vmc, .at or .lit; so
\* virt://lookin.at and virt://abc.vc are accepted, and virt://abc.com,
\* https://example.com, the empty string, virt:// alone and names with a dot
\* but no tag are rejected.
C12_ValidatorIff ==
    out # <<>> =>
        /\ out[1] = (/\ Len(arg) >= 7
                     /\ SubSeq(arg, 1, 7) = "virt://"
                     /\ \/ arg \in {"virt://register.at", "virt://lookin.at",
                                     "virt://v12browser.vc"}
                        \/ \E t \in ReservedTlds : HasTag(arg, t))
        /\ arg \in {"virt://lookin.at", "virt://abc.vc"} => out[1] = TRUE
        /\ arg \in {"virt://abc.com", "https://example.com", "", "virt://",
                     "virt://abc.", "virt://."} => out[1] = FALSE

\* the validator accepted a registered-style name and refused the same name
\* under another scheme
C12_Witness ==
    /\ out = <<TRUE>>
    /\ arg = "virt://abc.vc"
    /\ ~IsValidVirtUrl("https://abc.vc")

\* a URL that may be navigated to
Navigable(url) == IsValidVirtUrl(url) \/ StartsWith(url, "https://")

\* C13: a web contents navigates to u only if isValidVirtUrl(u) holds or u
\* begins with https://; for every other u no navigation occurs and the
\* caller of 'v12:navigate' receives success: false with an error.
C13_NavigationGated ==
    [][/\ \A c \in Contents : current'[c] # current[c] => Navigable(current'[c])
       /\ (ipc' # NoResult /\ ~Navigable(ipc'.url))
            => /\ ipc'.reply.success = FALSE
               /\ "error" \in DOMAIN ipc'.reply
               /\ current' = current]_vars

\* r is the fallback document for hostname: 200, text/html, naming the
\* hostname and linking to virt://register.at
IsFallbackDocument(r, hostname) ==
    /\ r.kind = "response"
    /\ r.status = 200
    /\ r.type = "text/html"
    /\ r.hostname = hostname
    /\ r.link = "virt://register.at"

\* C14: when the lookup succeeds and the fetch of the returned target fails
\* (rejects or throws), the handler's result is the fallback document; the
\* failure does not come out of the handler as a rejected promise or as a
\* 500 response.
C14_FetchFailureFallsBack ==
    (virt.pc = "done" /\ virt.fetch \in {"threw", "rejected"})
        => IsFallbackDocument(result, virt.hostname)

\* C15: for a hostname that is no system site, when the lookup answers
\* non-OK, or the lookup request fails, or its body cannot be parsed, the
\* handler returns the fallback document (text/html, with the hostname and a
\* link to virt://register.at) and fetches no target.
C15_LookupMissFallsBack ==
    (/\ virt.pc = "done"
     /\ ~(virt.hostname \in {"register.at", "lookin.at", "v12browser.vc"})
     /\ virt.settled # NoResult
     /\ \/ virt.settled.kind = "rejected"
        \/ virt.settled.status \notin 200..299
        \/ ~virt.settled.body.json)
        => /\ IsFallbackDocument(result, virt.hostname)
           /\ \A i \in DOMAIN net : net[i].kind # "target"

\* the registry could not be reached and the handler returned the fallback
C15_Witness ==
    /\ virt.pc = "done"
    /\ virt.hostname = "abc.vc"
    /\ virt.settled = Rejected
    /\ result = Fallback("abc.vc")
    /\ Len(net) = 1

C17_UpdateDeleteSerializable ==
    [][\A s \in Slots :
        (/\ req[s].pc \in {"verify", "save"} /\ req[s].op = "update"
         /\ req[s].body.secretKey = keyOf[req[s].site.id]
         /\ \A e \in store : e.id # req[s].site.id
         /\ last'.status # 0 /\ req'[s] # req[s])
            => last'.status = 404]_vars

\* C19: when the storage connection fails at start-up the service accepts no
\* registry operation: in no reachable state is the HTTP server listening
\* while the connection attempt has failed.
C19_NoListenWithoutStorage ==
    /\ ~(listening /\ db = "failed")
    /\ last.status # 0 => db = "connected"

\* the weighted score of the claim: title 10, keywords 5, description 3, bodyText 1
Weighted(d, q) ==
    (IF Matches(d.title, q) THEN 10 ELSE 0)
        + (IF \E i \in DOMAIN d.keywords : Matches(<<d.keywords[i]>>, q) THEN 5 ELSE 0)
        + (IF Matches(d.description, q) THEN 3 ELSE 0)
        + (IF Matches(d.bodyText, q) THEN 1 ELSE 0)

\* the stored record that a search result shows
Shown(r) == CHOOSE d \in store : d.domain = r.domain /\ d.tld = r.tld

OnlyInTitle(d, q) == Weighted(d, q) = 10
OnlyInBodyText(d, q) == Weighted(d, q) = 1

\* C20: a search with a query answers at most 20 records, in descending order
\* of the weighted score (title 10, keywords 5, description 3, bodyText 1):
\* they are matching records, none left out scores higher than one listed,
\* and a record matching only in its title comes before one matching only in
\* its bodyText; a search without a query is answered 400 and reads nothing.
C20_SearchRanked ==
    /\ (last.status # 0 /\ last.op = "search" /\ last.req.q = "")
            => last.status = 400 /\ io = <<>>
    /\ (last.status # 0 /\ last.op = "search" /\ last.req.q # "")
            => LET q == last.req.q
                   r == last.body.results
                   listed == {Shown(r[i]) : i \in DOMAIN r}
                   matching == {d \in store : Weighted(d, q) > 0}
               IN  /\ last.status = 200
                   /\ Len(r) <= 20
                   /\ \A i \in DOMAIN r :
                        \E d \in matching : d.domain = r[i].domain /\ d.tld = r[i].tld
                   /\ Cardinality(listed) = Len(r)
                   /\ Len(r) < 20 => listed = matching
                   /\ \A d \in matching \ listed : \A e \in listed :
                        Weighted(d, q) <= Weighted(e, q)
                   /\ \A i, j \in DOMAIN r :
                        i < j => Weighted(Shown(r[i]), q) >= Weighted(Shown(r[j]), q)
                   /\ \A i, j \in DOMAIN r :
                        (OnlyInTitle(Shown(r[i]), q) /\ OnlyInBodyText(Shown(r[j]), q))
                            => i < j

\* more than 20 records matched; the 20 listed hold a title-only match and a
\* bodyText-only match, and a bodyText-only match was left out
C20_Witness ==
    /\ Answered("search", 200)
    /\ Len(last.body.results) = 20
    /\ Cardinality({d \in store : Weighted(d, last.req.q) > 0}) > 20
    /\ \E i, j \in DOMAIN last.body.results :
            /\ OnlyInTitle(Shown(last.body.results[i]), last.req.q)
            /\ OnlyInBodyText(Shown(last.body.results[j]), last.req.q)
    /\ \E d \in store :
            /\ OnlyInBodyText(d, last.req.q)
            /\ \A i \in DOMAIN last.body.results : Shown(last.body.results[i]) # d

\* C21: a lookup answered 200 sets lastAccessed of the record it found to a
\* reading of the clock that is not earlier than the value stored before, and
\* changes no other field and no other record; a lookup answered 400 or 404,
\* a check and a search leave the collection as it was.
C21_LookupRefreshesLastAccessed ==
    [][/\ \A s \in Slots :
            (Leaves(s, "save", "lookup") /\ last'.status = 200)
                => \E e \in store :
                    /\ e.id = req[s].site.id
                    /\ \E t \in e.lastAccessed..now :
                            store' = (store \ {e}) \cup {[e EXCEPT !.lastAccessed = t]}
       /\ (last'.status \in {400, 404} /\ last'.op = "lookup") => store' = store
       /\ (last'.status # 0 /\ last'.op \in {"check", "search"}) => store' = store]_vars

\* C22: every registry lookup the protocol handler issues is for a hostname
\* that ends in a dot and a reserved tag, and carries as (domain, tld) the
\* part of the hostname before that dot and the tag.
C22_LookupOfReservedNames ==
    \A i \in DOMAIN net :
        net[i].kind = "lookup"
            => /\ net[i].tld \in ReservedTlds
               /\ net[i].domain # ""
               /\ virt.hostname = net[i].domain \o "." \o net[i].tld

\* s is lo to hi characters long, all of them digits
DigitString(s, lo, hi) ==
    /\ Len(s) >= lo /\ Len(s) <= hi
    /\ \A i \in 1..Len(s) : SubSeq(s, i, i) \in {"0", "1", "2", "3", "4", "5", "6", "7", "8", "9"}

\* four dot-separated groups of one to three digits, then nothing or a colon
\* and one to five digits
QuadShape(v) ==
    LET parts == SplitDot(v)
    IN  /\ Len(parts) = 4
        /\ \A i \in 1..3 : DigitString(parts[i], 1, 3)
        /\ LET c == IndexOf(parts[4], ":")
               n == Len(parts[4])
           IN  IF c = 0 THEN DigitString(parts[4], 1, 3)
               ELSE /\ DigitString(SubSeq(parts[4], 1, c - 1), 1, 3)
                    /\ DigitString(SubSeq(parts[4], c + 1, n), 1, 5)

\* https:// followed by at least one character of a line
HttpsShape(v) ==
    /\ Len(v) >= 9
    /\ SubSeq(v, 1, 8) = "https://"
    /\ SubSeq(v, 9, 9) \notin {"\n", "\r"}

WellShaped(v) == HttpsShape(v) \/ QuadShape(v)

C24_NeverVerified ==
    /\ \A d \in store : d.verified = FALSE
    /\ Answered("lookup", 200) => last.body.verified = FALSE

\* a lookup answered 200 for a record whose register body carried
\* verified: true
C24_Witness ==
    /\ Answered("lookup", 200)
    /\ \E d \in store :
            /\ Holds(d, last.req)
            /\ d.id \in DOMAIN bodyOf
            /\ "verified" \in DOMAIN bodyOf[d.id]
            /\ bodyOf[d.id].verified = TRUE

\* C25: the write of an update or a delete reaches only the record instance
\* that the handler loaded and whose secret it verified: every other record,
\* one registered since under the same name included, stays in the collection
\* as it was.
C25_WriteBoundToInstance ==
    [][\A s \in Slots :
        (Leaves(s, "save", "update") \/ Leaves(s, "delete", "delete"))
            => \A d \in store : d.id # req[s].site.id => d \in store']_vars

\* a delete with the first key was answered 200 after the name had been
\* deleted and registered again: the new record, under another key, is there
C25_Witness ==
    /\ Answered("delete", 200)
    /\ \E d \in store :
            /\ Holds(d, last.req)
            /\ d.id > 1
            /\ ~BcryptCompare(last.req.secretKey, d.secretKeyHash)

\* v begins with one of the two schemes that may be navigated to
HasScheme(v) ==
    \/ Len(v) >= 7 /\ SubSeq(v, 1, 7) = "virt://"
    \/ Len(v) >= 8 /\ SubSeq(v, 1, 8) = "https://"

\* v holds a character other than a letter, a digit, a dot or a hyphen
HasOtherCharacter(v) ==
    \E i \in 1..Len(v) :
        SubSeq(v, i, i) \notin
            {"a", "b", "c", "d", "e", "f", "g", "h", "i", "j", "k", "l", "m", "n", "o", "p",
             "q", "r", "s", "t", "u", "v", "w", "x", "y", "z", "A", "B", "C", "D", "E", "F",
             "G", "H", "I", "J", "K", "L", "M", "N", "O", "P", "Q", "R", "S", "T", "U", "V",
             "W", "X", "Y", "Z", "0", "1", "2", "3", "4", "5", "6", "7", "8", "9", ".", "-"}

\* C26: what navigateToUrl sends on 'v12:navigate' begins with virt:// or
\* https://; an input that is not a string, is blank, or has no such scheme
\* and holds a character outside letters, digits, dot and hyphen is refused
\* with an error and nothing is sent; the main handler never answers
\* 'Unsupported protocol'; an input that begins with virt:// once trimmed is
\* sent as trimmed.
C26_BridgeForwardsSchemes ==
    /\ out # <<>> =>
        /\ out[1].kind = "invoke" => out[1].channel = "v12:navigate" /\ HasScheme(out[1].url)
        /\ (\/ arg.type # "string"
            \/ Trim(arg.value) = ""
            \/ ~HasScheme(Trim(arg.value)) /\ HasOtherCharacter(Trim(arg.value)))
                => out[1].kind = "throws" /\ out[1].error # "" /\ ipc = NoResult
        /\ (arg.type = "string" /\ Len(Trim(arg.value)) >= 7
                /\ SubSeq(Trim(arg.value), 1, 7) = "virt://")
                => out[1] = [kind |-> "invoke", channel |-> "v12:navigate",
                             url |-> Trim(arg.value)]
    /\ ipc # NoResult =>
        /\ out # <<>> /\ out[1].kind = "invoke" /\ ipc.url = out[1].url
        /\ ipc.reply # [success |-> FALSE, error |-> "Unsupported protocol"]

\* a plain domain typed with blanks around it went to the main handler as
\* an https URL and was navigated to
C26_Witness ==
    /\ arg = [type |-> "string", value |-> " example.com"]
    /\ ipc # NoResult
    /\ ipc.url = "https://example.com"
    /\ ipc.reply = [success |-> TRUE, type |-> "https"]
    /\ current["main"] = "https://example.com"

\* the entries of the bookmark bar in the file, none when there is no file
Bar == IF bookmarks.exists THEN bookmarks.children ELSE <<>>

\* C27: the bookmark bar never holds two entries with the same id or the same
\* url; an add for a url that is present answers success: false and leaves
\* the file as it was; a remove that answers success: true takes out the one
\* entry with the given id and leaves the others as they were.
C27_BookmarksDistinct ==
    /\ [](\A i, j \in DOMAIN Bar :
            i # j => Bar[i].id # Bar[j].id /\ Bar[i].url # Bar[j].url)
    /\ [][/\ (/\ answer' # answer
              /\ answer'.kind = "answer"
              /\ answer'.channel = "v12:add-bookmark"
              /\ \E i \in DOMAIN Bar : Bar[i].url = answer'.input.url)
                => answer'.reply.success = FALSE /\ bookmarks' = bookmarks
          /\ (/\ answer'.kind = "answer"
              /\ bookmarks' # bookmarks
              /\ answer'.channel = "v12:remove-bookmark")
                => /\ answer'.reply.success = TRUE
                   /\ \E i \in DOMAIN Bar :
                        /\ Bar[i].id = answer'.input
                        /\ Bar' = SubSeq(Bar, 1, i - 1) \o SubSeq(Bar, i + 1, Len(Bar))
                   /\ \A i \in DOMAIN Bar' : Bar'[i].id # answer'.input]_vars

\* C18: every request the protocol handler takes up ends in a terminal
\* response, also when the lookup or the target fetch never answers.
C18_HandlerTerminates ==
    (virt.pc \in {"lookup", "target"}) ~> (virt.pc = "done")
====
